---- MODULE Spec2Model ----
(***************************************************************************)
(* Model of httpbin/client.py: Config resolution, Client construction, the *)
(* three checkpoints of Client.get() and the GetResponse result model.     *)
(*                                                                         *)
(* Text is a sequence of one-character strings, so that parsing and        *)
(* formatting of IPv4 addresses are computed, not assumed.  URLs are       *)
(* sequences of tokens (scheme, "://", host, path segments).               *)
(***************************************************************************)
EXTENDS Integers, Sequences, FiniteSets, TLC

VARIABLES env, cfg_arg, config, cfg_err, http, pc, response, checks,
          outcome, requests, calls, held

vars == <<env, cfg_arg, config, cfg_err, http, pc, response, checks,
          outcome, requests, calls, held>>

\* Number of get() invocations explored on one Client.
MaxCalls == 2

(***************************************************************************)
(* Exception classes and their base classes (Python builtins, httpx,       *)
(* pydantic, json and the client's own taxonomy).                          *)
(***************************************************************************)
ClientErrors == {"NetworkError", "StatusError", "ResponseError"}

Parent(c) ==
  CASE c \in ClientErrors -> "ClientError"
    [] c = "ClientError" -> "Exception"
    [] c = "TimeoutError" -> "OSError"
    [] c = "ConnectionError" -> "OSError"
    [] c = "ConnectionRefusedError" -> "ConnectionError"
    [] c = "OSError" -> "Exception"
    [] c = "httpx.ConnectError" -> "httpx.NetworkError"
    [] c = "httpx.NetworkError" -> "httpx.TransportError"
    [] c = "httpx.ConnectTimeout" -> "httpx.TimeoutException"
    [] c = "httpx.ReadTimeout" -> "httpx.TimeoutException"
    [] c = "httpx.TimeoutException" -> "httpx.TransportError"
    [] c = "httpx.TransportError" -> "httpx.RequestError"
    [] c = "httpx.RequestError" -> "httpx.HTTPError"
    [] c = "httpx.HTTPStatusError" -> "httpx.HTTPError"
    [] c = "httpx.HTTPError" -> "Exception"
    [] c = "ValidationError" -> "ValueError"
    [] c = "json.JSONDecodeError" -> "ValueError"
    [] c = "ValueError" -> "Exception"
    [] c = "TypeError" -> "Exception"
    [] OTHER -> "BaseException"

RECURSIVE IsInstance(_, _)
IsInstance(c, base) ==
  IF c = base THEN TRUE
  ELSE IF c = "BaseException" THEN FALSE
  ELSE IsInstance(Parent(c), base)

\* An `except (A, B)` clause catches an exception of class c.
Catches(classes, c) == \E b \in classes : IsInstance(c, b)

(***************************************************************************)
(* Python values that can be the `origin` of a result or of a payload.     *)
(***************************************************************************)
PyStr(s) == [type |-> "str", chars |-> s, num |-> 0, octets |-> <<>>]
PyInt(n) == [type |-> "int", chars |-> <<>>, num |-> n, octets |-> <<>>]
PyNone == [type |-> "NoneType", chars |-> <<>>, num |-> 0, octets |-> <<>>]
PyIPv4(o) == [type |-> "IPv4Address", chars |-> <<>>, num |-> 0, octets |-> o]

\* Python's ==: values of different types are never equal.
PyEq(a, b) == a.type = b.type /\ a = b

Digits == {"0", "1", "2", "3", "4", "5", "6", "7", "8", "9"}

DigitVal(d) ==
  CASE d = "0" -> 0 [] d = "1" -> 1 [] d = "2" -> 2 [] d = "3" -> 3
    [] d = "4" -> 4 [] d = "5" -> 5 [] d = "6" -> 6 [] d = "7" -> 7
    [] d = "8" -> 8 [] d = "9" -> 9

DigitChar(n) ==
  CASE n = 0 -> "0" [] n = 1 -> "1" [] n = 2 -> "2" [] n = 3 -> "3"
    [] n = 4 -> "4" [] n = 5 -> "5" [] n = 6 -> "6" [] n = 7 -> "7"
    [] n = 8 -> "8" [] n = 9 -> "9"

\* str.split(sep): the pieces between the separators, empty pieces kept.
RECURSIVE Split(_, _)
Split(s, sep) ==
  IF \A i \in 1..Len(s) : s[i] # sep THEN <<s>>
  ELSE LET i == CHOOSE k \in 1..Len(s) :
                  s[k] = sep /\ \A j \in 1..(k - 1) : s[j] # sep
       IN <<SubSeq(s, 1, i - 1)>> \o Split(SubSeq(s, i + 1, Len(s)), sep)

\* int(text, 10) of a text of decimal digits.
RECURSIVE IntOf(_)
IntOf(s) ==
  IF Len(s) = 0 THEN 0
  ELSE 10 * IntOf(SubSeq(s, 1, Len(s) - 1)) + DigitVal(s[Len(s)])

\* str(n) of a natural number.
RECURSIVE StrOf(_)
StrOf(n) ==
  IF n < 10 THEN <<DigitChar(n)>> ELSE StrOf(n \div 10) \o <<DigitChar(n % 10)>>

\* ipaddress.IPv4Address._parse_octet: TRUE when the octet text is accepted.
OctetOk(o) ==
  /\ Len(o) > 0
  /\ \A i \in 1..Len(o) : o[i] \in Digits
  /\ Len(o) <= 3
  /\ ~(o # <<"0">> /\ o[1] = "0")
  /\ IntOf(o) <= 255

\* ipaddress.IPv4Address(text): [ok, octets]; ok = FALSE is AddressValueError.
ParseIPv4(s) ==
  IF Len(s) = 0 \/ \E i \in 1..Len(s) : s[i] = "/"
  THEN [ok |-> FALSE, octets |-> <<>>]
  ELSE LET parts == Split(s, ".")
       IN IF Len(parts) # 4 \/ \E i \in 1..Len(parts) : ~OctetOk(parts[i])
          THEN [ok |-> FALSE, octets |-> <<>>]
          ELSE [ok |-> TRUE, octets |-> [i \in 1..4 |-> IntOf(parts[i])]]

\* str(IPv4Address): the dotted decimal form.
FormatIPv4(o) ==
  StrOf(o[1]) \o <<".">> \o StrOf(o[2]) \o <<".">> \o StrOf(o[3])
    \o <<".">> \o StrOf(o[4])


\* ipaddress.IPv4Address(int): accepted when 0 <= n <= 2^32 - 1.
IPv4OfInt(n) ==
  IF n < 0 \/ n \div 65536 > 65535
  THEN [ok |-> FALSE, octets |-> <<>>]
  ELSE [ok |-> TRUE,
        octets |-> <<n \div 16777216, (n \div 65536) % 256,
                     (n \div 256) % 256, n % 256>>]

(***************************************************************************)
(* GetResponse: a pydantic model with the single field                     *)
(* origin: ipaddress.IPv4Address and the default model configuration       *)
(* (extra fields ignored, attribute assignment allowed and not validated). *)
(***************************************************************************)
NoResult == [exists |-> FALSE, origin |-> PyNone]
Result(v) == [exists |-> TRUE, origin |-> v]

\* pydantic's validator of an IPv4Address field applied to a payload value.
ValidateOrigin(v) ==
  CASE v.type = "IPv4Address" -> [ok |-> TRUE, value |-> v]
    [] v.type = "str" ->
         LET p == ParseIPv4(v.chars)
         IN IF p.ok THEN [ok |-> TRUE, value |-> PyIPv4(p.octets)]
            ELSE [ok |-> FALSE, value |-> PyNone]
    [] v.type = "int" ->
         LET p == IPv4OfInt(v.num)
         IN IF p.ok THEN [ok |-> TRUE, value |-> PyIPv4(p.octets)]
            ELSE [ok |-> FALSE, value |-> PyNone]
    [] OTHER -> [ok |-> FALSE, value |-> PyNone]

\* A faulty variant of ValidateModel: extra fields are forbidden instead of ignored.
ValidateModelForbidExtra(data) ==
  IF ~data.has_origin \/ data.extra # {} THEN [ok |-> FALSE, value |-> NoResult]
  ELSE LET r == ValidateOrigin(data.origin)
       IN IF r.ok THEN [ok |-> TRUE, value |-> Result(r.value)]
          ELSE [ok |-> FALSE, value |-> NoResult]

\* GetResponse(**data) for a mapping: ok = FALSE is pydantic's ValidationError.
ValidateModel(data) ==
  IF ~data.has_origin THEN [ok |-> FALSE, value |-> NoResult]
  ELSE LET r == ValidateOrigin(data.origin)
       IN IF r.ok THEN [ok |-> TRUE, value |-> Result(r.value)]
          ELSE [ok |-> FALSE, value |-> NoResult]

\* result.origin = v on an existing result: stored without validation.
SetOrigin(r, v) == [r EXCEPT !.origin = v]

(***************************************************************************)
(* Inputs: origin texts, response bodies, status codes, transport outcomes *)
(***************************************************************************)
T_194 == <<"1","9","4",".","3","9",".","2","1","8",".","1","0">>
T_1234 == <<"1",".","2",".","3",".","4">>
T_max == <<"2","5","5",".","2","5","5",".","2","5","5",".","2","5","5">>
T_word == <<"n","o","t","-","a","n","-","i","p">>
T_three == <<"1",".","2",".","3">>
T_256 == <<"2","5","6",".","1",".","1",".","1">>
T_lead == <<"0","1",".","2",".","3",".","4">>
T_gap == <<"1",".",".","3",".","4">>
T_mask == <<"1",".","2",".","3",".","4","/","8">>
T_long == <<"1",".","2",".","3",".","0","0","0","4">>

OriginTexts == {T_194, T_1234, T_max, T_word, T_three, T_256, T_lead,
                T_gap, T_mask, T_long, <<>>}

OriginValues ==
  {PyStr(s) : s \in OriginTexts} \cup {PyInt(-1), PyInt(16909060), PyNone}

ExtraFields == {"args", "headers", "url"}

\* A response body: text that is not JSON, a JSON value that is not an
\* object, or a JSON object with or without `origin` and with extra fields.
Body(text, kind, has, v, extra) ==
  [text |-> text, kind |-> kind, has_origin |-> has, origin |-> v,
   extra |-> extra]

NoBody == Body("garbage", "none", FALSE, PyNone, {})

Bodies ==
  {NoBody, Body("json", "array", FALSE, PyNone, {}),
   Body("json", "null", FALSE, PyNone, {})}
  \cup {Body("json", "object", FALSE, PyNone, e) : e \in {{}, ExtraFields}}
  \cup {Body("json", "object", TRUE, v, e) :
          v \in OriginValues, e \in {{}, ExtraFields}}

StatusCodes == {200, 301, 400, 500}

TransportErrors ==
  {"TimeoutError", "ConnectionError", "ConnectionRefusedError",
   "httpx.ConnectError", "httpx.ConnectTimeout", "httpx.ReadTimeout"}

Raised(e) == [kind |-> "raise", exc |-> e, status |-> 0, body |-> NoBody]
Responded(s, b) == [kind |-> "response", exc |-> "", status |-> s, body |-> b]
NoResponse == [kind |-> "none", exc |-> "", status |-> 0, body |-> NoBody]

TransportOutcomes ==
  {Raised(e) : e \in TransportErrors}
  \cup {Responded(s, b) : s \in StatusCodes, b \in Bodies}


(***************************************************************************)
(* Config(BaseSettings): base_url: str = "https://httpbin.org", with       *)
(* env_prefix = "HTTPBIN_".                                                *)
(***************************************************************************)
U_default == <<"https", "://", "httpbin.org">>
U_test == <<"https", "://", "test.url">>
U_env == <<"https", "://", "some-other.url">>
U_other == <<"http", "://", "unprefixed.url">>
U_bad == <<"not a url">>

EnvPrefix == "HTTPBIN_"

\* An optional setting value: absent, a str, or a value no str is made of.
Unset == [set |-> FALSE, type |-> "none", val |-> <<>>]
StrSetting(u) == [set |-> TRUE, type |-> "str", val |-> u]
DictSetting == [set |-> TRUE, type |-> "dict", val |-> <<>>]

EnvNames == {<<EnvPrefix, "BASE_URL">>, <<"", "BASE_URL">>}

Environments ==
  {e \in [EnvNames -> {Unset, StrSetting(U_env), StrSetting(U_other),
                       StrSetting(U_bad)}] :
     /\ e[<<EnvPrefix, "BASE_URL">>] \in {Unset, StrSetting(U_env), StrSetting(U_bad)}
     /\ e[<<"", "BASE_URL">>] \in {Unset, StrSetting(U_other)}}

ConfigArgs == {Unset, StrSetting(U_test), StrSetting(U_bad), DictSetting}

\* The settings source reading the environment: the variable named
\* env_prefix + field name.
EnvSettings(e) == e[<<EnvPrefix, "BASE_URL">>]

\* A faulty variant of DeepUpdate: the environment wins over the explicit argument.
DeepUpdateEnvFirst(base, upd) == IF base.set THEN base ELSE upd

\* deep_update(base, upd): what upd sets overrides base.
DeepUpdate(base, upd) == IF upd.set THEN upd ELSE base

\* BaseSettings._build_values: the environment updated by the init kwargs.
BuildValues(arg, e) == DeepUpdate(EnvSettings(e), arg)

NoConfig == [exists |-> FALSE, base_url |-> <<>>]

\* Config(base_url = arg): the field's default fills a missing value and the
\* str validator accepts a str; [ok, config].
NewConfigResult(arg, e) ==
  LET v == BuildValues(arg, e)
  IN IF ~v.set THEN [ok |-> TRUE, config |-> [exists |-> TRUE, base_url |-> U_default]]
     ELSE IF v.type = "str"
          THEN [ok |-> TRUE, config |-> [exists |-> TRUE, base_url |-> v.val]]
          ELSE [ok |-> FALSE, config |-> NoConfig]

(***************************************************************************)
(* Client.get(): outcomes and the three checkpoints.                       *)
(***************************************************************************)
NoOutcome == [kind |-> "none", exc |-> "", cause |-> "", status |-> 0, value |-> NoResult]
Raise(exc, cause, status) ==
  [kind |-> "raise", exc |-> exc, cause |-> cause, status |-> status, value |-> NoResult]
Return(v) == [kind |-> "return", exc |-> "", cause |-> "", status |-> 0, value |-> v]

\* try: ... except classes as e: raise wrapper(e) -- for an exception of class
\* exc raised in the try block (status: the response status e carries).
Handle(classes, exc, wrapper, status) ==
  IF Catches(classes, exc) THEN Raise(wrapper, exc, status)
  ELSE Raise(exc, "", status)

\* A faulty variant of Sent: a failed transport call is attempted a second time.
SentRetry(base, t) ==
  IF t.kind = "raise"
  THEN <<[method |-> "GET", url |-> base \o <<"/get">>],
         [method |-> "GET", url |-> base \o <<"/get">>]>>
  ELSE <<[method |-> "GET", url |-> base \o <<"/get">>]>>

\* The requests one get() hands to the owned transport: self._http.get("/get").
Sent(base, t) == <<[method |-> "GET", url |-> base \o <<"/get">>]>>

\* Checkpoint 1: the transport call, with its except clause.
TransportCheckpoint(t) ==
  IF t.kind = "raise"
  THEN [next |-> "idle",
        outcome |-> Handle({"TimeoutError", "ConnectionError"}, t.exc, "NetworkError", 0)]
  ELSE [next |-> "status", outcome |-> NoOutcome]

\* response.raise_for_status(): TRUE when it raises httpx.HTTPStatusError.
\* Releases of the library differ on statuses that are neither success nor
\* error (1xx, 3xx): `legacy` raises only for 4xx and 5xx.
RaiseForStatus(status, legacy) ==
  IF legacy THEN status >= 400 /\ status <= 599
  ELSE ~(status >= 200 /\ status <= 299)

\* A faulty variant of StatusCheckpoint: the status error is swallowed and the body is
\* validated all the same.
StatusCheckpointSwallow(r, legacy) == [next |-> "schema", outcome |-> NoOutcome]

\* A faulty variant of StatusCheckpoint: StatusError is raised without its cause.
StatusCheckpointNoCause(r, legacy) ==
  IF RaiseForStatus(r.status, legacy)
  THEN [next |-> "idle", outcome |-> Raise("StatusError", "", 0)]
  ELSE [next |-> "schema", outcome |-> NoOutcome]

\* Checkpoint 2: the status check, with its except clause.
StatusCheckpoint(r, legacy) ==
  IF RaiseForStatus(r.status, legacy)
  THEN [next |-> "idle",
        outcome |-> Handle({"httpx.HTTPError"}, "httpx.HTTPStatusError",
                           "StatusError", r.status)]
  ELSE [next |-> "schema", outcome |-> NoOutcome]

\* Checkpoint 3: GetResponse(**response.json()), with its except clause.
\* json() raises json.JSONDecodeError on text that is not JSON; ** raises
\* TypeError on a value that is not a mapping.
SchemaCheckpoint(r) ==
  IF r.body.text # "json"
  THEN Handle({"ValidationError"}, "json.JSONDecodeError", "ResponseError", 0)
  ELSE IF r.body.kind # "object"
  THEN Handle({"ValidationError"}, "TypeError", "ResponseError", 0)
  ELSE LET v == ValidateModel(r.body)
       IN IF v.ok THEN Return(v.value)
          ELSE Handle({"ValidationError"}, "ValidationError", "ResponseError", 0)

(***************************************************************************)
(* State machine                                                           *)
(***************************************************************************)
NoClient == [exists |-> FALSE, base_url |-> <<>>]

Init ==
  /\ env \in Environments
  /\ cfg_arg = Unset
  /\ config = NoConfig
  /\ cfg_err = ""
  /\ http = NoClient
  /\ pc = "idle"
  /\ response = NoResponse
  /\ checks = <<>>
  /\ outcome = NoOutcome
  /\ requests = <<>>
  /\ calls = 0
  /\ held = NoResult

\* cfg = Config() or Config(base_url = arg)
NewConfig(arg) ==
  /\ ~config.exists /\ cfg_err = ""
  /\ LET r == NewConfigResult(arg, env)
     IN /\ config' = r.config
        /\ cfg_err' = IF r.ok THEN "" ELSE "ValidationError"
  /\ cfg_arg' = arg
  /\ UNCHANGED <<env, http, pc, response, checks, outcome, requests, calls, held>>

\* Client(cfg)
NewClient ==
  /\ config.exists /\ ~http.exists
  /\ http' = [exists |-> TRUE, base_url |-> config.base_url]
  /\ UNCHANGED <<env, cfg_arg, config, cfg_err, pc, response, checks, outcome,
                 requests, calls, held>>

\* get(), lines 120-124: the request goes out and the transport answers t.
GetTransport(t) ==
  /\ http.exists /\ pc = "idle" /\ calls < MaxCalls
  /\ calls' = calls + 1
  /\ requests' = requests \o Sent(http.base_url, t)
  /\ response' = t
  /\ checks' = <<"transport">>
  /\ LET r == TransportCheckpoint(t)
     IN pc' = r.next /\ outcome' = r.outcome
  /\ UNCHANGED <<env, cfg_arg, config, cfg_err, http, held>>

\* get(), lines 126-130
GetStatus(legacy) ==
  /\ pc = "status"
  /\ checks' = Append(checks, "status")
  /\ LET r == StatusCheckpoint(response, legacy)
     IN pc' = r.next /\ outcome' = r.outcome
  /\ UNCHANGED <<env, cfg_arg, config, cfg_err, http, response, requests, calls, held>>

\* get(), lines 132-136; the caller keeps the result returned.
GetSchema ==
  /\ pc = "schema"
  /\ checks' = Append(checks, "schema")
  /\ LET o == SchemaCheckpoint(response)
     IN /\ outcome' = o
        /\ held' = IF o.kind = "return" THEN o.value ELSE held
  /\ pc' = "idle"
  /\ UNCHANGED <<env, cfg_arg, config, cfg_err, http, response, requests, calls>>

AssignedValues == {PyStr(T_word), PyStr(T_1234)}

\* result.origin = v, by the caller holding a result
AssignOrigin(v) ==
  /\ held.exists /\ pc = "idle"
  /\ held' = SetOrigin(held, v)
  /\ UNCHANGED <<env, cfg_arg, config, cfg_err, http, pc, response, checks,
                 outcome, requests, calls>>

Next ==
  \/ \E arg \in ConfigArgs : NewConfig(arg)
  \/ NewClient
  \/ \E t \in TransportOutcomes : GetTransport(t)
  \/ \E legacy \in BOOLEAN : GetStatus(legacy)
  \/ GetSchema
  \/ \E v \in AssignedValues : AssignOrigin(v)

Spec == Init /\ [][Next]_vars


(***************************************************************************)
(* Properties                                                              *)
(***************************************************************************)
\* A get() invocation has run to its end.
Done == pc = "idle" /\ calls > 0

IsErrorStatus(s) == s >= 400 /\ s <= 599
IsSuccessStatus(s) == s >= 200 /\ s <= 299

\* The text is the decimal numeral of an octet.
IsOctetText(seg) == \E n \in 0..255 : seg = StrOf(n)

\* The text is a dotted quad: four octet numerals separated by three dots.
IsDottedQuad(s) ==
  \E i, j, k \in 1..Len(s) :
    /\ i < j /\ j < k
    /\ s[i] = "." /\ s[j] = "." /\ s[k] = "."
    /\ IsOctetText(SubSeq(s, 1, i - 1))
    /\ IsOctetText(SubSeq(s, i + 1, j - 1))
    /\ IsOctetText(SubSeq(s, j + 1, k - 1))
    /\ IsOctetText(SubSeq(s, k + 1, Len(s)))

\* The value is a syntactically valid IPv4 address.
ValidOrigin(v) ==
  \/ v.type = "IPv4Address" /\ Len(v.octets) = 4
       /\ \A i \in 1..4 : v.octets[i] \in 0..255
  \/ v.type = "str" /\ IsDottedQuad(v.chars)

\* The URL has a scheme, "://" and a host.
IsAbsoluteURL(u) ==
  Len(u) >= 3 /\ u[1] \in {"http", "https"} /\ u[2] = "://" /\ u[3] # ""

\* C1: whenever the transport call of a get() fails at the transport level,
\* whatever error kind the transport surfaces, get() raises NetworkError
\* wrapping that error.
C1_AnyTransportFailureIsNetworkError ==
  (Done /\ response.kind = "raise") =>
    /\ outcome.kind = "raise"
    /\ outcome.exc = "NetworkError"
    /\ outcome.cause = response.exc

\* C2: a response with a 4xx or 5xx status makes get() raise StatusError, which
\* carries the status error and with it the response's status code.
C2_ErrorStatusRaisesStatusError ==
  (Done /\ response.kind = "response" /\ IsErrorStatus(response.status)) =>
    /\ outcome.kind = "raise"
    /\ outcome.exc = "StatusError"
    /\ outcome.cause = "httpx.HTTPStatusError"
    /\ outcome.status = response.status

C2_Witness ==
  /\ Done /\ response.kind = "response" /\ response.status = 500
  /\ outcome.exc = "StatusError" /\ outcome.status = 500

\* The body fails to parse as a JSON object or does not match the schema.
BadPayload(b) ==
  \/ b.text # "json"
  \/ b.kind # "object"
  \/ ~b.has_origin
  \/ b.origin.type = "NoneType"
  \/ b.origin.type = "str" /\ ~IsDottedQuad(b.origin.chars)

\* C3: with a success status, a body that is not JSON, is not a JSON object,
\* lacks `origin` or has an `origin` that is no valid IPv4 address makes get()
\* raise ResponseError wrapping the validation error.
C3_BadPayloadRaisesResponseError ==
  (Done /\ response.kind = "response" /\ IsSuccessStatus(response.status)
        /\ BadPayload(response.body)) =>
    /\ outcome.kind = "raise"
    /\ outcome.exc = "ResponseError"
    /\ outcome.cause = "ValidationError"

\* C4: every get() ends with a valid Result returned or with exactly one of
\* NetworkError, StatusError, ResponseError raised; nothing else escapes.
C4_OutcomeIsResultOrClientError ==
  Done =>
    \/ outcome.kind = "return" /\ outcome.value.exists
         /\ ValidOrigin(outcome.value.origin)
    \/ outcome.kind = "raise" /\ outcome.exc \in ClientErrors

IsPrefix(s, t) == Len(s) <= Len(t) /\ s = SubSeq(t, 1, Len(s))

\* C5: the checkpoints run in the order transport, status, schema; after a
\* transport failure neither status nor schema is checked, and after a 4xx/5xx
\* status the body is never parsed or validated.
C5_CheckpointOrder ==
  /\ IsPrefix(checks, <<"transport", "status", "schema">>)
  /\ response.kind = "raise" =>
       /\ checks = <<"transport">>
       /\ pc = "idle"
       /\ outcome.kind = "raise"
       /\ outcome.exc \notin {"StatusError", "ResponseError"}
  /\ (response.kind = "response" /\ IsErrorStatus(response.status)) =>
       /\ pc # "schema"
       /\ \A i \in 1..Len(checks) : checks[i] # "schema"
       /\ outcome.exc # "ResponseError"
       /\ outcome.kind # "return"

C5_Witness ==
  /\ Done /\ response.kind = "response" /\ response.status = 400
  /\ checks = <<"transport", "status">> /\ outcome.kind = "raise"

\* The case of C6: status 200 and a JSON object whose origin is a valid IPv4
\* address string, with the call at its end.
C6_Case ==
  /\ Done /\ response.kind = "response" /\ response.status = 200
  /\ response.body.text = "json" /\ response.body.kind = "object"
  /\ response.body.has_origin
  /\ response.body.origin.type = "str"
  /\ IsDottedQuad(response.body.origin.chars)

\* C6 as stated: the Result's origin equals the address string of the body.
C6_OriginEqualsString ==
  C6_Case =>
    /\ outcome.kind = "return"
    /\ PyEq(outcome.value.origin, response.body.origin)

\* C6 as amended: get() returns a Result whose origin is an IPv4Address, the
\* one whose string form is the body's address string, whatever extra fields
\* the body has.
C6_OriginIsParsedAddress ==
  C6_Case =>
    /\ outcome.kind = "return"
    /\ outcome.value.exists
    /\ outcome.value.origin.type = "IPv4Address"
    /\ FormatIPv4(outcome.value.origin.octets) = response.body.origin.chars

C6_Witness ==
  /\ C6_Case
  /\ response.body.origin.chars = T_194
  /\ response.body.extra = ExtraFields
  /\ outcome.kind = "return"
  /\ outcome.value.origin = PyIPv4(<<194, 39, 218, 10>>)

\* C7: every Result that exists has, at every point of its lifetime, an origin
\* that is a syntactically valid IPv4 address.
C7_ResultAlwaysValid == held.exists => ValidOrigin(held.origin)

\* C8: every get() hands exactly one GET request for base_url + /get to the
\* owned transport, whatever its outcome: no retry, no answer without request.
C8_OneRequestPerCall ==
  /\ Len(requests) = calls
  /\ \A i \in 1..Len(requests) :
       requests[i] = [method |-> "GET", url |-> http.base_url \o <<"/get">>]

C8_Witness ==
  /\ Done /\ calls = 2 /\ Len(requests) = 2
  /\ outcome.kind = "raise" /\ response.kind = "raise"

\* C9: base_url is the explicit argument when given, otherwise the value of
\* HTTPBIN_BASE_URL when set, otherwise https://httpbin.org.
C9_Precedence ==
  config.exists =>
    config.base_url =
      IF cfg_arg.set THEN cfg_arg.val
      ELSE IF env[<<"HTTPBIN_", "BASE_URL">>].set
           THEN env[<<"HTTPBIN_", "BASE_URL">>].val
           ELSE <<"https", "://", "httpbin.org">>

C9_Witness ==
  /\ config.exists
  /\ cfg_arg = StrSetting(U_test)
  /\ env[<<"HTTPBIN_", "BASE_URL">>] = StrSetting(U_env)
  /\ config.base_url = U_test

\* C10: every Config that was constructed has a base_url that is an absolute
\* URL, and so has every Client built on one.
C10_BaseUrlIsAbsolute ==
  /\ config.exists => IsAbsoluteURL(config.base_url)
  /\ http.exists => IsAbsoluteURL(http.base_url)

====
